---- MODULE Spec2Model ----
(***************************************************************************)
(* Shapefile -> PostGIS ingestion (ingestion_from_shp.py, utils_db.py).    *)
(*                                                                         *)
(* Text is modelled as a sequence of characters; a character is a string   *)
(* of length one (or a token such as "U+00C9" for a non-ASCII character).  *)
(***************************************************************************)
EXTENDS Integers, Sequences, FiniteSets, TLC

VARIABLES
    \* slugify (ingestion_from_shp.py:119-123)
    nm_in, nm_once, nm_twice, nm_pc,
    \* sanitize_columns (ingestion_from_shp.py:132-142)
    sc_cols, sc_out, sc_pc,
    \* has_z_any, geom_type_for_column (ingestion_from_shp.py:154-177)
    gc_gdf, gc_z, gc_res, gc_pc,
    \* read_shp_robust (ingestion_from_shp.py:180-207) and
    \* _read_gdf_try_encodings (utils_db.py:121-138, called at 169-181)
    er_reader,      \* which of the two readers runs
    er_cpg,         \* the .cpg sidecar: does it exist, and its text
    er_readable,    \* the encodings gpd.read_file accepts for this file
    er_auto,        \* whether gpd.read_file without an encoding succeeds
    er_errpath,     \* whether the text of gpd.read_file's exception names the path
    er_hint, er_trials, er_idx, er_attempts, er_last_err, er_pc, er_result, er_raised,
    \* to_postgis, create_views_and_policies (ingestion_from_shp.py:210-283) and
    \* upload_shapefile_zip (utils_db.py:183-221)
    if_exists,      \* IF_EXISTS, the configured behaviour of the batch ingestion
    db,             \* the committed state of the database
    tx,             \* the state seen inside the open transaction
    tx_failed,      \* a statement of the open transaction has failed
    call,           \* the locals of the call in progress (or of the last call)
    pc,             \* the statement the call is at, "idle" between calls
    \* main (ingestion_from_shp.py:286-329), the batch run over a folder
    b_cfg,          \* SUPABASE_HOST and SUPABASE_PASSWORD are both set
    b_online,       \* the database server can be reached
    b_folder,       \* the files under the root, in the order rglob yields them
    b_idx,          \* the position of the for loop in the walk
    b_outcome,      \* per file of the walk: where its loop body is or how it ended
    b_errors,       \* errors, the list of {"file", "error"} records
    b_report,       \* ingest_shp_errors.json as written by this run
    b_tables,       \* the tables of PG_SCHEMA, by name
    b_pc            \* the statement main is at

slugVars == <<nm_in, nm_once, nm_twice, nm_pc>>
colVars == <<sc_cols, sc_out, sc_pc>>
geomVars == <<gc_gdf, gc_z, gc_res, gc_pc>>
encEnv == <<er_reader, er_cpg, er_readable, er_auto, er_errpath>>
encVars == <<encEnv, er_hint, er_trials, er_idx, er_attempts, er_last_err, er_pc,
             er_result, er_raised>>
dbVars == <<if_exists, db, tx, tx_failed, call, pc>>
batchVars == <<b_cfg, b_online, b_folder, b_idx, b_outcome, b_errors, b_report,
               b_tables, b_pc>>
vars == <<slugVars, colVars, geomVars, encVars, dbVars, batchVars>>

(***************************************************************************)
(* Characters and Python string primitives                                 *)
(***************************************************************************)
LowerLetters ==
    << "a","b","c","d","e","f","g","h","i","j","k","l","m",
       "n","o","p","q","r","s","t","u","v","w","x","y","z" >>

UpperLetters ==
    << "A","B","C","D","E","F","G","H","I","J","K","L","M",
       "N","O","P","Q","R","S","T","U","V","W","X","Y","Z" >>

Digits == << "0","1","2","3","4","5","6","7","8","9" >>

Range(s) == { s[i] : i \in DOMAIN s }

Min(a, b) == IF a <= b THEN a ELSE b

\* str.lower() on one character; "U+00C9" (E acute) lowers to "U+00E9".
LowerChar(c) ==
    IF \E i \in DOMAIN UpperLetters : UpperLetters[i] = c
    THEN LowerLetters[CHOOSE i \in DOMAIN UpperLetters : UpperLetters[i] = c]
    ELSE IF c = "U+00C9" THEN "U+00E9" ELSE c

\* str.upper() on one character.
UpperChar(c) ==
    IF \E i \in DOMAIN LowerLetters : LowerLetters[i] = c
    THEN UpperLetters[CHOOSE i \in DOMAIN LowerLetters : LowerLetters[i] = c]
    ELSE IF c = "U+00E9" THEN "U+00C9" ELSE c

Lower(s) == [i \in DOMAIN s |-> LowerChar(s[i])]

Upper(s) == [i \in DOMAIN s |-> UpperChar(s[i])]

Whitespace == { " ", "\t", "\n", "\r" }

\* s.strip(chars): drop the leading and trailing characters that are in chars.
StripChars(s, chars) ==
    LET keep == { i \in DOMAIN s : s[i] \notin chars }
    IN  IF keep = {} THEN << >>
        ELSE LET lo == CHOOSE i \in keep : \A j \in keep : i <= j
                 hi == CHOOSE i \in keep : \A j \in keep : j <= i
             IN  SubSeq(s, lo, hi)

\* s[:n]
Prefix(s, n) == SubSeq(s, 1, Min(Len(s), n))

\* s.endswith(t)
EndsWith(s, t) ==
    /\ Len(t) <= Len(s)
    /\ SubSeq(s, Len(s) - Len(t) + 1, Len(s)) = t

\* s.replace(t, ""): remove the non-overlapping occurrences of t, left to right.
RECURSIVE Remove(_, _)
Remove(s, t) ==
    IF Len(s) < Len(t) \/ Len(t) = 0 THEN s
    ELSE IF SubSeq(s, 1, Len(t)) = t THEN Remove(SubSeq(s, Len(t) + 1, Len(s)), t)
    ELSE << s[1] >> \o Remove(Tail(s), t)

\* str(i) for i >= 0
RECURSIVE ToDec(_)
ToDec(i) ==
    IF i < 10 THEN << Digits[i + 1] >>
    ELSE ToDec(i \div 10) \o << Digits[(i % 10) + 1] >>

(***************************************************************************)
(* Identifier Normalizer                                                   *)
(***************************************************************************)
PG_NAME_MAXLEN == 63

\* the character class [a-z0-9_]
SafeChars == Range(LowerLetters) \cup Range(Digits) \cup { "_" }

\* re.sub(r"[^a-z0-9_]+", "_", s): each maximal run of characters outside the
\* class becomes one underscore.
SubUnsafeRuns(s) ==
    LET mark == [i \in DOMAIN s |->
                    IF s[i] \in SafeChars THEN s[i]
                    ELSE IF i = 1 \/ s[i - 1] \in SafeChars THEN "_"
                    ELSE "<drop>"]
    IN  SelectSeq(mark, LAMBDA c : c # "<drop>")

\* re.sub(r"_+", "_", s)
CollapseUnderscores(s) ==
    LET mark == [i \in DOMAIN s |->
                    IF s[i] = "_" /\ i > 1 /\ s[i - 1] = "_" THEN "<drop>"
                    ELSE s[i]]
    IN  SelectSeq(mark, LAMBDA c : c # "<drop>")

slugify_untruncated(name) ==
    StripChars(CollapseUnderscores(SubUnsafeRuns(Lower(name))), { "_" })

slugify(name) == Prefix(slugify_untruncated(name), PG_NAME_MAXLEN)

GEOMETRY_COL == << "g","e","o","m","e","t","r","y" >>

COL_DEFAULT == << "c","o","l" >>

\* f"{base}_{i}"
Suffixed(base, i) == base \o << "_" >> \o ToDec(i)

\* the while loop of sanitize_columns: the first of base_i, base_(i+1), ...
\* that is neither seen nor "geometry"
RECURSIVE NextFree(_, _, _)
NextFree(base, i, seen) ==
    LET cc == Suffixed(base, i)
    IN  IF cc \in seen \/ cc = GEOMETRY_COL THEN NextFree(base, i + 1, seen) ELSE cc

ColumnName_ignoring_seen(c, seen) ==
    LET s == slugify(c)
        cc == IF s = << >> THEN COL_DEFAULT ELSE s
    IN  IF cc = GEOMETRY_COL THEN NextFree(cc, 2, seen) ELSE cc

\* one iteration of the for loop: the name given to column c
ColumnName(c, seen) ==
    LET s == slugify(c)
        cc == IF s = << >> THEN COL_DEFAULT ELSE s
    IN  IF cc \in seen \/ cc = GEOMETRY_COL THEN NextFree(cc, 2, seen) ELSE cc

RECURSIVE SanitizeLoop(_, _, _)
SanitizeLoop(columns, cols, seen) ==
    IF columns = << >> THEN cols
    ELSE LET c == Head(columns)
         IN  IF c = GEOMETRY_COL
             THEN SanitizeLoop(Tail(columns), Append(cols, c), seen)
             ELSE LET cc == ColumnName(c, seen)
                  IN  SanitizeLoop(Tail(columns), Append(cols, cc), seen \cup { cc })

sanitize_columns(columns) == SanitizeLoop(columns, << >>, {})

(***************************************************************************)
(* Inputs of the Identifier Normalizer                                     *)
(***************************************************************************)
\* longest tail appended to the padding of a name
MaxTail == 3

\* how far below PG_NAME_MAXLEN the padding of a long name starts
PadSlack == 2

TailAlphabet == { "a", "B", "_", " ", "7", "U+00C9" }

RECURSIVE SeqsUpTo(_, _)
SeqsUpTo(S, n) ==
    IF n = 0 THEN { << >> }
    ELSE LET shorter == SeqsUpTo(S, n - 1)
         IN  shorter \cup { Append(s, x) : s \in { t \in shorter : Len(t) = n - 1 }, x \in S }

Pad(k) == [i \in 1..k |-> "a"]

PadLengths == { 0 } \cup ((PG_NAME_MAXLEN - PadSlack)..PG_NAME_MAXLEN)

NameInputs == { Pad(k) \o t : k \in PadLengths, t \in SeqsUpTo(TailAlphabet, MaxTail) }

SlugInit ==
    /\ nm_in \in NameInputs
    /\ nm_once = << >>
    /\ nm_twice = << >>
    /\ nm_pc = "input"

SlugIdle ==
    /\ nm_in = << >>
    /\ nm_once = << >>
    /\ nm_twice = << >>
    /\ nm_pc = "off"

\* slugify applied to the input name
Slugify ==
    /\ nm_pc = "input"
    /\ nm_once' = slugify(nm_in)
    /\ nm_pc' = "once"
    /\ UNCHANGED <<nm_in, nm_twice>>

\* slugify applied to its own result
SlugifyAgain ==
    /\ nm_pc = "once"
    /\ nm_twice' = slugify(nm_once)
    /\ nm_pc' = "twice"
    /\ UNCHANGED <<nm_in, nm_once>>

\* most columns of one layer
MaxCols == 3

ColumnPool ==
    { << "I","D" >>, << "i","d" >>, << "I","d"," " >>, << "i","d","_","2" >>,
      GEOMETRY_COL, << "G","e","o","m","e","t","r","y" >>, << "U+00C9" >>,
      Pad(PG_NAME_MAXLEN), << "A" >> \o Pad(PG_NAME_MAXLEN - 1),
      Pad(PG_NAME_MAXLEN - 1) \o << "_","b" >>, Pad(PG_NAME_MAXLEN - 1) \o << "_","c" >> }

\* the columns of a layer: distinct names, in any order
ColumnLists ==
    { cs \in SeqsUpTo(ColumnPool, MaxCols) :
        \A i, j \in DOMAIN cs : i # j => cs[i] # cs[j] }

ColInit ==
    /\ sc_cols \in ColumnLists
    /\ sc_out = << >>
    /\ sc_pc = "input"

ColIdle ==
    /\ sc_cols = << >>
    /\ sc_out = << >>
    /\ sc_pc = "off"

SanitizeColumns ==
    /\ sc_pc = "input"
    /\ sc_out' = sanitize_columns(sc_cols)
    /\ sc_pc' = "done"
    /\ UNCHANGED sc_cols

(***************************************************************************)
(* Geometry Type Classifier                                                *)
(*                                                                         *)
(* A geometry is a record: null (a missing geometry), gt (its shapely      *)
(* geom_type, which never carries a Z suffix) and has_z. A layer's         *)
(* geometry column is a sequence of geometries.                            *)
(***************************************************************************)
ShapelyPoint == << "P","o","i","n","t" >>

ShapelyLineString == << "L","i","n","e","S","t","r","i","n","g" >>

ShapelyPolygon == << "P","o","l","y","g","o","n" >>

ShapelyMultiPoint == << "M","u","l","t","i","P","o","i","n","t" >>

ShapelyMultiLineString == << "M","u","l","t","i","L","i","n","e","S","t","r","i","n","g" >>

ShapelyMultiPolygon == << "M","u","l","t","i","P","o","l","y","g","o","n" >>

ShapelyGeometryCollection ==
    << "G","e","o","m","e","t","r","y","C","o","l","l","e","c","t","i","o","n" >>

T_GEOMETRY == << "G","E","O","M","E","T","R","Y" >>

T_POLYGON == << "P","O","L","Y","G","O","N" >>

T_MULTIPOLYGON == << "M","U","L","T","I","P","O","L","Y","G","O","N" >>

T_LINESTRING == << "L","I","N","E","S","T","R","I","N","G" >>

T_MULTILINESTRING == << "M","U","L","T","I","L","I","N","E","S","T","R","I","N","G" >>

T_POINT == << "P","O","I","N","T" >>

T_MULTIPOINT == << "M","U","L","T","I","P","O","I","N","T" >>

NullGeom == [null |-> TRUE, gt |-> << >>, has_z |-> FALSE]

Geom(gt, z) == [null |-> FALSE, gt |-> gt, has_z |-> z]

\* gdf.geom_type.dropna(): the type names of the non-null geometries
GeomTypeNames(gdf) == { gdf[i].gt : i \in { k \in DOMAIN gdf : ~gdf[k].null } }

has_z_any(gdf) == \E i \in DOMAIN gdf : ~gdf[i].null /\ gdf[i].has_z

\* the body of the for loop over types: a trailing Z or ZM is removed
NormType(t) ==
    IF EndsWith(t, << "Z","M" >>) \/ EndsWith(t, << "Z" >>)
    THEN Remove(Remove(t, << "Z","M" >>), << "Z" >>)
    ELSE t

WithZ(t, z) == IF z THEN t \o << "Z" >> ELSE t

geom_type_for_column_dropping_z(gdf, z) ==
    LET types == { NormType(Upper(t)) : t \in GeomTypeNames(gdf) }
    IN  IF Cardinality(types) = 0 THEN [gtype |-> WithZ(T_GEOMETRY, z), mixed |-> TRUE]
        ELSE IF Cardinality(types) = 1
        THEN [gtype |-> CHOOSE t \in types : TRUE, mixed |-> FALSE]
        ELSE [gtype |-> WithZ(T_GEOMETRY, z), mixed |-> TRUE]

geom_type_for_column(gdf, z) ==
    LET types == { NormType(Upper(t)) : t \in GeomTypeNames(gdf) }
    IN  IF Cardinality(types) = 0 THEN [gtype |-> WithZ(T_GEOMETRY, z), mixed |-> TRUE]
        ELSE IF Cardinality(types) = 1
        THEN [gtype |-> WithZ(CHOOSE t \in types : TRUE, z), mixed |-> FALSE]
        ELSE [gtype |-> WithZ(T_GEOMETRY, z), mixed |-> TRUE]

\* most geometries of a classified layer
MaxGeoms == 3

ClassifiedGeoms ==
    { NullGeom } \cup
    { Geom(gt, z) : gt \in { ShapelyPolygon, ShapelyMultiPolygon, ShapelyPoint,
                             ShapelyLineString },
                    z \in BOOLEAN }

NoResult == [gtype |-> << >>, mixed |-> FALSE]

GeomInit ==
    /\ gc_gdf \in SeqsUpTo(ClassifiedGeoms, MaxGeoms)
    /\ gc_z = FALSE
    /\ gc_res = NoResult
    /\ gc_pc = "input"

GeomIdle ==
    /\ gc_gdf = << >>
    /\ gc_z = FALSE
    /\ gc_res = NoResult
    /\ gc_pc = "off"

\* z = has_z_any(gdf)
HasZAny ==
    /\ gc_pc = "input"
    /\ gc_z' = has_z_any(gc_gdf)
    /\ gc_pc' = "z"
    /\ UNCHANGED <<gc_gdf, gc_res>>

\* gtype, mixed = geom_type_for_column(gdf, z)
GeomTypeForColumn ==
    /\ gc_pc = "z"
    /\ gc_res' = geom_type_for_column(gc_gdf, gc_z)
    /\ gc_pc' = "done"
    /\ UNCHANGED <<gc_gdf, gc_z>>

(***************************************************************************)
(* Encoding Resolver                                                       *)
(*                                                                         *)
(* None and the empty string are both written << >>: the code only tests   *)
(* the hint for truth (filter(None, ...), "if enc_hint").                  *)
(***************************************************************************)
ENC_UTF8 == << "u","t","f","-","8" >>

ENC_LATIN1 == << "l","a","t","i","n","-","1" >>

ENC_CP1252 == << "c","p","1","2","5","2" >>

\* the attempt that passes no encoding to gpd.read_file
AUTO == << "<auto>" >>

\* enc_map / map_enc, as the set of its (key, value) pairs
enc_map ==
    { << << "U","T","F","-","8" >>, ENC_UTF8 >>,
      << << "U","T","F","8" >>, ENC_UTF8 >>,
      << << "L","A","T","I","N","1" >>, ENC_LATIN1 >>,
      << << "I","S","O","-","8","8","5","9","-","1" >>, ENC_LATIN1 >>,
      << << "C","P","1","2","5","2" >>, ENC_CP1252 >>,
      << << "W","I","N","D","O","W","S","-","1","2","5","2" >>, ENC_CP1252 >> }

\* enc_map.get(raw, raw.lower())
EncMapGet(raw) ==
    IF \E kv \in enc_map : kv[1] = raw
    THEN (CHOOSE kv \in enc_map : kv[1] = raw)[2]
    ELSE Lower(raw)

\* enc_hint: None without a sidecar, else the mapped text of the sidecar
EncHint(cpg) ==
    IF cpg.exists THEN EncMapGet(Upper(StripChars(cpg.text, Whitespace))) ELSE << >>

FALLBACKS == << ENC_UTF8, ENC_LATIN1, ENC_CP1252 >>

Trials_hint_last(hint) == FALLBACKS \o (IF hint # << >> THEN << hint >> ELSE << >>)

\* trials: [enc_hint, "utf-8", "latin-1", "cp1252"] without a false hint
Trials(hint) == (IF hint # << >> THEN << hint >> ELSE << >>) \o FALLBACKS

NoError == [raised |-> FALSE, names_path |-> FALSE, encodings |-> << >>]

\* the exception gpd.read_file raised: its text lists no encodings
ReaderError(names_path) == [raised |-> TRUE, names_path |-> names_path, encodings |-> << >>]

\* RuntimeError(f"Impossible de lire le SHP (encodings testés: {trials}).
\* Dernière erreur: {last_err}"): names the path only if last_err does
TrialsError(trials, last_err) ==
    [raised |-> TRUE, names_path |-> last_err.names_path, encodings |-> trials]

CpgTexts ==
    { << "C","P","1","2","5","2" >>, << "u","t","f","8" >>,
      << " ","L","a","t","i","n","1","\n" >>, << "B","i","g","5" >>, << " " >> }

Sidecars == { [exists |-> FALSE, text |-> << >>] } \cup
            { [exists |-> TRUE, text |-> t] : t \in CpgTexts }

KnownEncodings == { ENC_UTF8, ENC_LATIN1, ENC_CP1252, << "b","i","g","5" >> }

EncInit ==
    /\ er_reader \in { "read_shp_robust", "_read_gdf_try_encodings" }
    /\ er_cpg \in Sidecars
    /\ er_readable \in SUBSET KnownEncodings
    /\ er_auto \in BOOLEAN
    /\ er_errpath \in BOOLEAN
    /\ er_hint = << >>
    /\ er_trials = << >>
    /\ er_idx = 1
    /\ er_attempts = << >>
    /\ er_last_err = NoError
    /\ er_pc = "start"
    /\ er_result = << >>
    /\ er_raised = NoError

EncIdle ==
    /\ er_reader = "off"
    /\ er_cpg = [exists |-> FALSE, text |-> << >>]
    /\ er_readable = {}
    /\ er_auto = FALSE
    /\ er_errpath = FALSE
    /\ er_hint = << >>
    /\ er_trials = << >>
    /\ er_idx = 1
    /\ er_attempts = << >>
    /\ er_last_err = NoError
    /\ er_pc = "off"
    /\ er_result = << >>
    /\ er_raised = NoError

\* the sidecar is read and the list of trials is built
ReadCpg ==
    /\ er_pc = "start"
    /\ er_hint' = EncHint(er_cpg)
    /\ er_trials' = Trials(EncHint(er_cpg))
    /\ er_pc' = "loop"
    /\ UNCHANGED <<encEnv, er_idx, er_attempts, er_last_err, er_result, er_raised>>

\* one iteration of the for loop: gpd.read_file(path, encoding=enc)
TryEncoding ==
    /\ er_pc = "loop"
    /\ er_idx <= Len(er_trials)
    /\ er_attempts' = Append(er_attempts, er_trials[er_idx])
    /\ IF er_trials[er_idx] \in er_readable
       THEN /\ er_pc' = "returned"
            /\ er_result' = er_trials[er_idx]
            /\ UNCHANGED <<er_idx, er_last_err>>
       ELSE /\ er_idx' = er_idx + 1
            /\ er_last_err' = ReaderError(er_errpath)
            /\ UNCHANGED <<er_pc, er_result>>
    /\ UNCHANGED <<encEnv, er_hint, er_trials, er_raised>>

\* after the loop: gpd.read_file(path); read_shp_robust lets its exception
\* through, _read_gdf_try_encodings wraps it in a RuntimeError
AutoDetect ==
    /\ er_pc = "loop"
    /\ er_idx > Len(er_trials)
    /\ er_attempts' = Append(er_attempts, AUTO)
    /\ IF er_auto
       THEN /\ er_pc' = "returned"
            /\ er_result' = AUTO
            /\ UNCHANGED er_raised
       ELSE /\ er_pc' = "raised"
            /\ er_raised' = IF er_reader = "read_shp_robust"
                            THEN ReaderError(er_errpath)
                            ELSE TrialsError(er_trials, er_last_err)
            /\ UNCHANGED er_result
    /\ UNCHANGED <<encEnv, er_hint, er_trials, er_idx, er_last_err>>

(***************************************************************************)
(* The database                                                            *)
(*                                                                         *)
(* One target table in one target schema. A table holds its rows (the      *)
(* geometry of each, with the type name as PostGIS reports it), the        *)
(* declaration of its geometry column, and the objects the pipeline adds.  *)
(* An unknown SRID (None in the code) is written NoSrid.                   *)
(***************************************************************************)
NoSrid == 0

NoTable ==
    [exists |-> FALSE, rows |-> << >>, geom_col |-> "", gtype |-> << >>,
     srid |-> NoSrid, dim |-> 2, has_id |-> FALSE, id_ok |-> FALSE, pkey |-> FALSE,
     gix |-> FALSE, analyzed |-> FALSE, rls |-> FALSE, policy |-> FALSE,
     view_geojson |-> FALSE, view_4326 |-> FALSE]

\* a layer read from a shapefile: its geometries, the EPSG code of its CRS
\* (NoSrid without a usable .prj) and its attribute column named id, if any:
\* "none", "unique" (distinct, non-null values) or "dup"
Layer(rows, epsg, id) == [rows |-> rows, epsg |-> epsg, id |-> id]

\* the geometries as stored: PostGIS reports the type name in upper case
StoredRows(rows) ==
    [i \in DOMAIN rows |->
        IF rows[i].null THEN NullGeom ELSE Geom(Upper(rows[i].gt), rows[i].has_z)]

\* the table DataFrame.to_sql creates for the layer
CreatedTable(layer, gcol, gtype, srid, dim) ==
    [NoTable EXCEPT !.exists = TRUE, !.rows = StoredRows(layer.rows),
                    !.geom_col = gcol, !.gtype = gtype, !.srid = srid, !.dim = dim,
                    !.has_id = (layer.id # "none"), !.id_ok = (layer.id = "unique")]

WrittenTable_always_appending(mode, old, layer, gcol, gtype, srid, dim) ==
    IF old.exists
    THEN [old EXCEPT !.rows = old.rows \o StoredRows(layer.rows)]
    ELSE CreatedTable(layer, gcol, gtype, srid, dim)

\* gdf.to_postgis(..., if_exists=mode): "replace" drops the table and creates
\* it again, "append" inserts into the table when it exists
WrittenTable(mode, old, layer, gcol, gtype, srid, dim) ==
    IF mode = "append" /\ old.exists
    THEN [old EXCEPT !.rows = old.rows \o StoredRows(layer.rows)]
    ELSE CreatedTable(layer, gcol, gtype, srid, dim)

\* engine.begin(): the block's statements are committed when the block ends
Commit(committed, working) == working

Rollback_keeping_statements(committed, working) == working

\* engine.begin(): the block's statements are rolled back when it raises
Rollback(committed, working) == committed

(***************************************************************************)
(* Statements: whether PostgreSQL rejects the statement in the state t of  *)
(* the table, and the table it leaves otherwise                            *)
(***************************************************************************)
\* ALTER TABLE .. RENAME COLUMN "geometry" TO "geom", under the guard of the
\* column query
RenameGeometry(t) ==
    IF t.geom_col = "geometry" THEN [t EXCEPT !.geom_col = "geom"] ELSE t

\* CREATE INDEX IF NOT EXISTS .. USING GIST("geom")
CreateIndexFails(t) == ~t.exists \/ t.geom_col # "geom"

CreateIndex(t) == [t EXCEPT !.gix = TRUE]

\* ALTER TABLE .. ADD COLUMN IF NOT EXISTS id bigserial
AddIdFails(t) == ~t.exists

AddId(t) == IF t.has_id THEN t ELSE [t EXCEPT !.has_id = TRUE, !.id_ok = TRUE]

\* ALTER TABLE .. ADD CONSTRAINT .. PRIMARY KEY (id): rejected when the table
\* has a primary key already, or when id holds a null or a duplicate
AddPrimaryKeyError(t) ==
    IF ~t.exists \/ ~t.has_id THEN "undefined"
    ELSE IF t.pkey THEN "exists"
    ELSE IF ~t.id_ok THEN "not_unique"
    ELSE "none"

AddPrimaryKey(t) == [t EXCEPT !.pkey = TRUE]

\* ANALYZE
AnalyzeFails(t) == ~t.exists

Analyze(t) == [t EXCEPT !.analyzed = TRUE]

\* ST_Multi: the type of the multi-geometry made of a geometry of type gt
MultiOf(gt) == IF gt \in { T_POLYGON, T_LINESTRING, T_POINT }
               THEN << "M","U","L","T","I" >> \o gt
               ELSE gt

\* ST_Multi(ST_Force2D(geom))
Multi2D(g) == IF g.null THEN g ELSE Geom(MultiOf(g.gt), FALSE)

\* ALTER COLUMN "geom" TYPE geometry(fam, srid) USING ST_Multi(ST_Force2D("geom")):
\* rejected when a converted geometry is not of type fam
CoerceFails(t, fam) ==
    \/ ~t.exists
    \/ t.geom_col # "geom"
    \/ \E i \in DOMAIN t.rows : ~t.rows[i].null /\ MultiOf(t.rows[i].gt) # fam

Coerce(t, fam, srid) ==
    [t EXCEPT !.rows = [i \in DOMAIN t.rows |-> Multi2D(t.rows[i])],
              !.gtype = fam, !.srid = srid, !.dim = 2]

\* ALTER TABLE .. ENABLE ROW LEVEL SECURITY
EnableRlsFails(t) == ~t.exists

EnableRls(t) == [t EXCEPT !.rls = TRUE]

\* SELECT 1 FROM pg_policies ..; CREATE POLICY .. if there is none
CreatePolicyIfAbsent(t) == IF t.policy THEN t ELSE [t EXCEPT !.policy = TRUE]

CREATE_GEOJSON_VIEW == FALSE

CREATE_REPROJECTED_VIEW_4326 == FALSE

APPLY_RLS_AND_GRANT == TRUE

\* SELECT public.create_geojson_view(..) and CREATE OR REPLACE VIEW .._4326,
\* each when its option is on
CreateViews(t) ==
    [t EXCEPT !.view_geojson = (@ \/ CREATE_GEOJSON_VIEW),
              !.view_4326 = (@ \/ CREATE_REPROJECTED_VIEW_4326)]

(***************************************************************************)
(* The locals of a call                                                    *)
(***************************************************************************)
\* detect_srid: the EPSG code of the CRS, None without one
detect_srid(layer) == layer.epsg

\* _geom_family
geom_family(gdf) ==
    LET fams == { Upper(t) : t \in GeomTypeNames(gdf) }
    IN  IF fams \cap { T_POLYGON, T_MULTIPOLYGON } # {} THEN T_MULTIPOLYGON
        ELSE IF fams \cap { T_LINESTRING, T_MULTILINESTRING } # {} THEN T_MULTILINESTRING
        ELSE IF fams \cap { T_POINT, T_MULTIPOINT } # {} THEN T_MULTIPOINT
        ELSE T_GEOMETRY

MULTI_FAMILIES == { T_MULTIPOLYGON, T_MULTILINESTRING, T_MULTIPOINT }

CoercionGuard_without_srid(srid, fam) == fam \in MULTI_FAMILIES

\* if srid and fam in ("MULTIPOLYGON","MULTILINESTRING","MULTIPOINT")
CoercionGuard(srid, fam) == srid # NoSrid /\ fam \in MULTI_FAMILIES

NoLayer == Layer(<< >>, NoSrid, "none")

NoDb == [schema |-> FALSE, table |-> NoTable]

NoCall ==
    [path |-> "none", mode |-> "replace", layer |-> NoLayer, srid |-> NoSrid,
     z |-> FALSE, gtype |-> << >>, dim |-> 2, mixed |-> FALSE, fam |-> << >>,
     default_epsg |-> NoSrid, rows_before |-> 0,
     step |-> "none", step_base |-> NoDb, log |-> << >>,
     pk_error |-> "none", raised |-> "none", returned |-> FALSE]

(***************************************************************************)
(* The calls, statement by statement                                       *)
(*                                                                         *)
(* Every statement can fail for a reason of its own (fault: the connection *)
(* is lost, the server refuses). Once a statement of a transaction has     *)
(* failed, PostgreSQL rejects every later statement of that transaction    *)
(* until it is rolled back.                                                *)
(***************************************************************************)
\* most rows of the table (appending stops there)
MaxTableRows == 3

GeomPolygon == Geom(ShapelyPolygon, FALSE)

GeomMultiPolygonZ == Geom(ShapelyMultiPolygon, TRUE)

GeomPoint == Geom(ShapelyPoint, FALSE)

EPSG_LAMBERT93 == 2154

\* the layers that are ingested: polygons with and without a CRS and with an
\* attribute column id; single and multi, 2D and 3D polygons together;
\* polygons with a point; a layer without any simple or multi geometry
DbLayers ==
    { Layer(<< GeomPolygon >>, EPSG_LAMBERT93, "none"),
      Layer(<< GeomPolygon >>, EPSG_LAMBERT93, "unique"),
      Layer(<< GeomPolygon >>, EPSG_LAMBERT93, "dup"),
      Layer(<< GeomPolygon >>, NoSrid, "none"),
      Layer(<< GeomPolygon, GeomMultiPolygonZ >>, EPSG_LAMBERT93, "none"),
      Layer(<< GeomPolygon, GeomMultiPolygonZ >>, NoSrid, "none"),
      Layer(<< GeomPolygon, GeomPoint >>, EPSG_LAMBERT93, "none"),
      Layer(<< Geom(ShapelyGeometryCollection, FALSE), NullGeom >>, EPSG_LAMBERT93, "none") }

DbInit ==
    /\ if_exists \in { "replace", "append" }
    /\ db \in { [schema |-> sch, table |-> NoTable] : sch \in BOOLEAN }
    /\ tx = db
    /\ tx_failed = FALSE
    /\ call = NoCall
    /\ pc = "idle"

DbIdle ==
    /\ if_exists = "replace"
    /\ db = NoDb
    /\ tx = NoDb
    /\ tx_failed = FALSE
    /\ call = NoCall
    /\ pc = "off"

\* the exception leaves the call: an open transaction is rolled back
Raise ==
    /\ db' = Rollback(db, tx)
    /\ tx' = Rollback(db, tx)
    /\ tx_failed' = FALSE
    /\ call' = [call EXCEPT !.raised = call.step]
    /\ pc' = "idle"

\* conn.execute(stmt) inside the open transaction, at position here
Execute(here, next, stmt, rejected, work) ==
    /\ pc = here
    /\ \E fault \in BOOLEAN :
          IF tx_failed \/ fault \/ rejected
          THEN Raise
          ELSE /\ tx' = work
               /\ call' = [call EXCEPT !.log = Append(@, stmt)]
               /\ pc' = next
               /\ UNCHANGED <<db, tx_failed>>
    /\ UNCHANGED if_exists

\* the last conn.execute(stmt) of a transaction, and the commit that follows
ExecuteLast(here, next, nextstep, stmt, rejected, work, returns) ==
    /\ pc = here
    /\ \E fault \in BOOLEAN :
          IF tx_failed \/ fault \/ rejected
          THEN Raise
          ELSE /\ db' = Commit(db, work)
               /\ tx' = Commit(db, work)
               /\ call' = [call EXCEPT !.log = Append(@, stmt), !.step = nextstep,
                                       !.step_base = Commit(db, work),
                                       !.returned = returns]
               /\ pc' = next
               /\ UNCHANGED tx_failed
    /\ UNCHANGED if_exists

\* conn.execute(ADD CONSTRAINT .. PRIMARY KEY) inside try/except Exception: pass
ExecutePrimaryKey(here, next) ==
    /\ pc = here
    /\ \E fault \in BOOLEAN :
          LET error == IF AddPrimaryKeyError(tx.table) # "none"
                       THEN AddPrimaryKeyError(tx.table)
                       ELSE IF fault THEN "fault" ELSE "none"
          IN  IF error = "none"
              THEN /\ tx' = [tx EXCEPT !.table = AddPrimaryKey(tx.table)]
                   /\ call' = [call EXCEPT !.log = Append(@, "ADD PRIMARY KEY")]
                   /\ UNCHANGED tx_failed
              ELSE /\ tx_failed' = TRUE
                   /\ call' = [call EXCEPT !.pk_error = error]
                   /\ UNCHANGED tx
    /\ pc' = next
    /\ UNCHANGED <<db, if_exists>>

\* main, lines 303-318: the locals of to_postgis for one layer of the folder
IngestFile ==
    /\ pc = "idle"
    /\ \E layer \in DbLayers :
          LET z == has_z_any(layer.rows)
              r == geom_type_for_column(layer.rows, z)
          IN  call' = [NoCall EXCEPT !.path = "ingest", !.mode = if_exists,
                                     !.layer = layer, !.srid = detect_srid(layer),
                                     !.z = z, !.gtype = r.gtype, !.mixed = r.mixed,
                                     !.dim = IF z THEN 3 ELSE 2,
                                     !.rows_before = Len(db.table.rows),
                                     !.step = "schema", !.step_base = db]
    /\ pc' = "schema"
    /\ UNCHANGED <<if_exists, db, tx, tx_failed>>

\* the working state with the table replaced by t
OnTable(t) == [tx EXCEPT !.table = t]

\* with engine.begin(): CREATE SCHEMA IF NOT EXISTS
CreateSchema ==
    ExecuteLast("schema", "write", "write", "CREATE SCHEMA", FALSE,
                [tx EXCEPT !.schema = TRUE], FALSE)

\* gdf.to_postgis(name=table, .., if_exists=IF_EXISTS, dtype={"geom": geom_dtype}):
\* the writer works in a transaction of its own
WriteTable ==
    /\ call.mode = "append" => Len(db.table.rows) + Len(call.layer.rows) <= MaxTableRows
    /\ ExecuteLast("write", "fin_cols", "finalize", "WRITE", ~tx.schema,
                   OnTable(WrittenTable(call.mode, tx.table, call.layer, "geom",
                                        call.gtype, call.srid, call.dim)),
                   FALSE)

\* with engine.begin(): the column query, and the rename it guards
FinRenameGeometry ==
    Execute("fin_cols", "fin_index", "SELECT column_name", FALSE,
            OnTable(RenameGeometry(tx.table)))

FinCreateIndex ==
    Execute("fin_index", "fin_addid", "CREATE INDEX", CreateIndexFails(tx.table),
            OnTable(CreateIndex(tx.table)))

FinAddIdColumn ==
    Execute("fin_addid", "fin_pk", "ADD COLUMN id", AddIdFails(tx.table),
            OnTable(AddId(tx.table)))

FinAddPrimaryKey == ExecutePrimaryKey("fin_pk", "fin_analyze")

\* ANALYZE, the last statement of to_postgis
FinAnalyze ==
    ExecuteLast("fin_analyze", "pub_views", "publish", "ANALYZE",
                AnalyzeFails(tx.table), OnTable(Analyze(tx.table)), FALSE)

\* create_views_and_policies: with engine.begin(), the two optional views
PubCreateViews ==
    Execute("pub_views", "pub_rls", "BEGIN", FALSE,
            OnTable(CreateViews(tx.table)))

PubEnableRls ==
    Execute("pub_rls", "pub_policy", "ENABLE RLS", EnableRlsFails(tx.table),
            OnTable(EnableRls(tx.table)))

\* the policy query and CREATE POLICY; the call returns
PubCreatePolicy ==
    ExecuteLast("pub_policy", "idle", "none", "CREATE POLICY", ~tx.table.exists,
                OnTable(CreatePolicyIfAbsent(tx.table)), TRUE)

\* the default_epsg arguments of upload_shapefile_zip
DefaultEpsgs == { NoSrid, EPSG_LAMBERT93 }

\* upload_shapefile_zip, lines 183-196: SRID, family and declared type
UploadZip ==
    /\ pc = "idle"
    /\ \E layer \in DbLayers, default_epsg \in DefaultEpsgs :
          LET srid == IF layer.epsg # NoSrid THEN layer.epsg ELSE default_epsg
              fam == geom_family(layer.rows)
          IN  call' = [NoCall EXCEPT !.path = "upload", !.mode = "replace",
                                     !.layer = layer, !.srid = srid, !.fam = fam,
                                     !.gtype = IF srid # NoSrid THEN fam ELSE T_GEOMETRY,
                                     !.default_epsg = default_epsg,
                                     !.rows_before = Len(db.table.rows),
                                     !.step = "write", !.step_base = db]
    /\ pc' = "up_write"
    /\ UNCHANGED <<if_exists, db, tx, tx_failed>>

\* gdf.to_postgis(table_name, engine, schema=schema, if_exists="replace", dtype=dtype)
UpWriteTable ==
    ExecuteLast("up_write", "up_addid", "finalize", "WRITE", ~tx.schema,
                OnTable(WrittenTable(call.mode, tx.table, call.layer, "geom",
                                     call.gtype, call.srid, call.dim)),
                FALSE)

UpAddIdColumn ==
    Execute("up_addid", "up_pk", "ADD COLUMN id", AddIdFails(tx.table),
            OnTable(AddId(tx.table)))

UpAddPrimaryKey == ExecutePrimaryKey("up_pk", "up_coerce")

\* the coercion to MULTI + 2D, under its guard
UpCoerceMulti ==
    IF CoercionGuard(call.srid, call.fam)
    THEN Execute("up_coerce", "up_index", "ALTER COLUMN TYPE",
                 CoerceFails(tx.table, call.fam),
                 OnTable(Coerce(tx.table, call.fam, call.srid)))
    ELSE /\ pc = "up_coerce"
         /\ pc' = "up_index"
         /\ UNCHANGED <<if_exists, db, tx, tx_failed, call>>

UpCreateIndex ==
    Execute("up_index", "up_analyze", "CREATE INDEX", CreateIndexFails(tx.table),
            OnTable(CreateIndex(tx.table)))

\* ANALYZE; the call returns its record
UpAnalyze ==
    ExecuteLast("up_analyze", "idle", "none", "ANALYZE", AnalyzeFails(tx.table),
                OnTable(Analyze(tx.table)), TRUE)

(***************************************************************************)
(* The batch run: main over the .shp files of a folder                     *)
(*                                                                         *)
(* to_postgis and create_views_and_policies run as the transactions they   *)
(* are made of: each either commits what its statements do to the table or *)
(* raises and leaves the table as it was.                                  *)
(***************************************************************************)
\* the root folder of the run (argv[1] or RACINE_DONNEES)
ROOT == << "/","d" >>

SHP_SUFFIX == << ".","s","h","p" >>

\* s.startswith(t)
StartsWith(s, t) == Len(t) <= Len(s) /\ SubSeq(s, 1, Len(t)) = t

\* Path(p).name: what follows the last separator
BaseName(p) ==
    LET seps == { i \in DOMAIN p : p[i] = "/" }
    IN  IF seps = {} THEN p
        ELSE SubSeq(p, (CHOOSE i \in seps : \A j \in seps : j <= i) + 1, Len(p))

\* list_shp_files: what rglob("*.shp") yields, without the macOS artefacts
list_shp_files(folder) ==
    SelectSeq(folder, LAMBDA p : ~StartsWith(BaseName(p), << ".","_" >>))

\* os.path.relpath(shp_path, root), for a path under root
RelPath(shp_path, root) == SubSeq(shp_path, Len(root) + 2, Len(shp_path))

\* Path(rel).with_suffix("").as_posix(): the last suffix of the name is dropped
WithoutSuffix(rel) ==
    LET name == BaseName(rel)
        dots == { i \in 2..Len(name) : name[i] = "." }
    IN  IF dots = {} \/ name[Len(name)] = "." THEN rel
        ELSE LET last == CHOOSE i \in dots : \A j \in dots : j <= i
             IN  SubSeq(rel, 1, Len(rel) - (Len(name) - last + 1))

table_name_from_path(root, shp_path) == slugify(WithoutSuffix(RelPath(shp_path, root)))

\* the files a folder can hold
FILE_A_DASH_B == ROOT \o << "/","a","-","b" >> \o SHP_SUFFIX

FILE_A_SLASH_B == ROOT \o << "/","a","/","b" >> \o SHP_SUFFIX

FILE_C == ROOT \o << "/","c" >> \o SHP_SUFFIX

FILE_MAC_ARTEFACT == ROOT \o << "/",".","_","c" >> \o SHP_SUFFIX

FILE_EMPTY == ROOT \o << "/","e" >> \o SHP_SUFFIX

FolderFiles == { FILE_A_DASH_B, FILE_A_SLASH_B, FILE_C, FILE_MAC_ARTEFACT, FILE_EMPTY }

\* the layer read_shp_robust returns for a file, when it returns
ReadLayer(shp) ==
    IF shp = FILE_A_DASH_B THEN Layer(<< GeomPolygon >>, EPSG_LAMBERT93, "none")
    ELSE IF shp = FILE_A_SLASH_B THEN Layer(<< GeomPoint >>, EPSG_LAMBERT93, "none")
    ELSE IF shp = FILE_C THEN Layer(<< GeomPolygon, GeomMultiPolygonZ >>, NoSrid, "none")
    ELSE Layer(<< >>, NoSrid, "none")

\* most files under the root
MaxFiles == 2

Folders ==
    { f \in SeqsUpTo(FolderFiles, MaxFiles) : \A i, j \in DOMAIN f : i # j => f[i] # f[j] }

TableNames == { table_name_from_path(ROOT, p) : p \in FolderFiles }

\* the exceptions of a run, by what str(e) tells
E_CONFIG == "Variables .env manquantes"

E_READ == "read"

E_DATABASE == "database"

E_CONNECTION == "connection"

ExceptException_read_only(e) == e = E_READ

\* except Exception: every exception of the loop body is one
ExceptException(e) == e \in { E_CONFIG, E_READ, E_DATABASE, E_CONNECTION }

NoReport == [written |-> FALSE, records |-> << >>]

RunInit ==
    /\ b_cfg \in BOOLEAN
    /\ b_online \in BOOLEAN
    /\ b_folder \in Folders
    /\ b_idx = 0
    /\ b_outcome = [i \in DOMAIN list_shp_files(b_folder) |-> "pending"]
    /\ b_errors = << >>
    /\ b_report = NoReport
    /\ b_tables = [n \in TableNames |-> NoTable]
    /\ b_pc = "start"

BatchIdle ==
    /\ b_cfg = FALSE
    /\ b_online = FALSE
    /\ b_folder = << >>
    /\ b_idx = 0
    /\ b_outcome = << >>
    /\ b_errors = << >>
    /\ b_report = NoReport
    /\ b_tables = << >>
    /\ b_pc = "off"

\* for shp in list_shp_files(root)
Walk == list_shp_files(b_folder)

\* shp, the file of the iteration in progress
CurFile == Walk[b_idx]

\* table = table_name_from_path(root, shp)
CurTable == table_name_from_path(ROOT, CurFile)

\* what a statement sent to the server meets: the server answers, refuses, or
\* cannot be reached
ServerAnswers == IF b_online THEN { "ok", E_DATABASE, E_CONNECTION } ELSE { E_CONNECTION }

\* an exception raised in the loop body: caught, logged and recorded, and the
\* loop goes on; an exception the clause does not catch ends the run
BodyRaises(e) ==
    IF ExceptException(e)
    THEN /\ b_errors' = Append(b_errors, [file |-> CurFile, error |-> e])
         /\ b_outcome' = [b_outcome EXCEPT ![b_idx] = "failed"]
         /\ b_pc' = "loop"
    ELSE /\ b_outcome' = [b_outcome EXCEPT ![b_idx] = "failed"]
         /\ b_pc' = "aborted"
         /\ UNCHANGED b_errors

\* one transaction of the loop body on the table of the file
BodyTransaction(here, next, rejected, after, outcome) ==
    /\ b_pc = here
    /\ \E answer \in ServerAnswers :
          LET e == IF answer # "ok" THEN answer
                   ELSE IF rejected THEN E_DATABASE ELSE "ok"
          IN  /\ b_online' = (b_online /\ answer # E_CONNECTION)
              /\ IF e = "ok"
                 THEN /\ b_tables' = [b_tables EXCEPT ![CurTable] = after]
                      /\ b_outcome' = [b_outcome EXCEPT ![b_idx] = outcome]
                      /\ b_pc' = next
                      /\ UNCHANGED b_errors
                 ELSE /\ BodyRaises(e)
                      /\ UNCHANGED b_tables
    /\ UNCHANGED <<b_cfg, b_folder, b_idx, b_report>>

\* engine = mk_engine_from_env(): raises without host or password; create_engine
\* does not connect
RunMkEngine ==
    /\ b_pc = "start"
    /\ b_pc' = IF b_cfg THEN "setup" ELSE "aborted"
    /\ UNCHANGED <<b_cfg, b_online, b_folder, b_idx, b_outcome, b_errors, b_report, b_tables>>

\* ensure_postgis_and_helpers(engine), outside any try
RunEnsurePostgis ==
    /\ b_pc = "setup"
    /\ \E answer \in ServerAnswers :
          /\ b_online' = (b_online /\ answer # E_CONNECTION)
          /\ b_pc' = IF answer = "ok" THEN "loop" ELSE "aborted"
    /\ UNCHANGED <<b_cfg, b_folder, b_idx, b_outcome, b_errors, b_report, b_tables>>

\* the for statement: the next file of the walk, or the end of the loop
RunNextFile ==
    /\ b_pc = "loop"
    /\ IF b_idx < Len(Walk)
       THEN /\ b_idx' = b_idx + 1
            /\ b_outcome' = [b_outcome EXCEPT ![b_idx + 1] = "running"]
            /\ b_pc' = "read"
       ELSE /\ b_pc' = "report"
            /\ UNCHANGED <<b_idx, b_outcome>>
    /\ UNCHANGED <<b_cfg, b_online, b_folder, b_errors, b_report, b_tables>>

\* gdf = read_shp_robust(shp); if gdf.empty: continue
RunReadShp ==
    /\ b_pc = "read"
    /\ \E readable \in BOOLEAN :
          IF ~readable
          THEN BodyRaises(E_READ)
          ELSE /\ b_outcome' = [b_outcome EXCEPT ![b_idx] =
                                   IF ReadLayer(CurFile).rows = << >> THEN "empty" ELSE @]
               /\ b_pc' = IF ReadLayer(CurFile).rows = << >> THEN "loop" ELSE "schema"
               /\ UNCHANGED b_errors
    /\ UNCHANGED <<b_cfg, b_online, b_folder, b_idx, b_report, b_tables>>

\* to_postgis: CREATE SCHEMA IF NOT EXISTS
RunCreateSchema ==
    BodyTransaction("schema", "write", FALSE, b_tables[CurTable], "running")

\* to_postgis: gdf.to_postgis(name=table, if_exists=IF_EXISTS, dtype={"geom": ..})
RunWriteTable ==
    LET layer == ReadLayer(CurFile)
        z == has_z_any(layer.rows)
    IN  BodyTransaction("write", "finalize", FALSE,
                        WrittenTable(if_exists, b_tables[CurTable], layer, "geom",
                                     geom_type_for_column(layer.rows, z).gtype,
                                     detect_srid(layer), IF z THEN 3 ELSE 2),
                        "running")

\* the finalizer transaction fails when one of its statements is rejected; a
\* rejected ADD CONSTRAINT is caught, and ANALYZE is rejected after it
FinalizeFails(t) ==
    LET renamed == RenameGeometry(t)
    IN  \/ CreateIndexFails(renamed)
        \/ AddIdFails(CreateIndex(renamed))
        \/ AddPrimaryKeyError(AddId(CreateIndex(renamed))) # "none"
        \/ AnalyzeFails(renamed)

Finalized(t) == Analyze(AddPrimaryKey(AddId(CreateIndex(RenameGeometry(t)))))

\* to_postgis: the finalizer transaction
RunFinalize ==
    BodyTransaction("finalize", "publish", FinalizeFails(b_tables[CurTable]),
                    Finalized(b_tables[CurTable]), "running")

PublishFails(t) == APPLY_RLS_AND_GRANT /\ EnableRlsFails(t)

Published(t) ==
    IF APPLY_RLS_AND_GRANT THEN CreatePolicyIfAbsent(EnableRls(CreateViews(t)))
    ELSE CreateViews(t)

\* create_views_and_policies, the last call of the loop body
RunPublish ==
    BodyTransaction("publish", "loop", PublishFails(b_tables[CurTable]),
                    Published(b_tables[CurTable]), "ingested")

\* if errors: write ingest_shp_errors.json
RunWriteReport ==
    /\ b_pc = "report"
    /\ b_report' = IF b_errors # << >> THEN [written |-> TRUE, records |-> b_errors]
                   ELSE b_report
    /\ b_pc' = "done"
    /\ UNCHANGED <<b_cfg, b_online, b_folder, b_idx, b_outcome, b_errors, b_tables>>

(***************************************************************************)
(* Specifications                                                          *)
(***************************************************************************)
InitSlug == SlugInit /\ ColIdle /\ GeomIdle /\ EncIdle /\ DbIdle /\ BatchIdle

NextSlug == (Slugify \/ SlugifyAgain) /\ UNCHANGED <<colVars, geomVars, encVars, dbVars,
                 batchVars>>

SpecSlug == InitSlug /\ [][NextSlug]_vars

InitCols == ColInit /\ SlugIdle /\ GeomIdle /\ EncIdle /\ DbIdle /\ BatchIdle

NextCols == SanitizeColumns /\ UNCHANGED <<slugVars, geomVars, encVars, dbVars,
                 batchVars>>

SpecCols == InitCols /\ [][NextCols]_vars

InitGeom == GeomInit /\ SlugIdle /\ ColIdle /\ EncIdle /\ DbIdle /\ BatchIdle

NextGeom == (HasZAny \/ GeomTypeForColumn) /\ UNCHANGED <<slugVars, colVars, encVars, dbVars,
                 batchVars>>

SpecGeom == InitGeom /\ [][NextGeom]_vars

InitEnc == EncInit /\ SlugIdle /\ ColIdle /\ GeomIdle /\ DbIdle /\ BatchIdle

NextEnc == (ReadCpg \/ TryEncoding \/ AutoDetect) /\ UNCHANGED <<slugVars, colVars, geomVars, dbVars,
                 batchVars>>

SpecEnc == InitEnc /\ [][NextEnc]_vars

InitDb == DbInit /\ SlugIdle /\ ColIdle /\ GeomIdle /\ EncIdle /\ BatchIdle

NextDb ==
    /\ \/ IngestFile \/ CreateSchema \/ WriteTable
       \/ FinRenameGeometry \/ FinCreateIndex \/ FinAddIdColumn \/ FinAddPrimaryKey
       \/ FinAnalyze
       \/ PubCreateViews \/ PubEnableRls \/ PubCreatePolicy
       \/ UploadZip \/ UpWriteTable \/ UpAddIdColumn \/ UpAddPrimaryKey
       \/ UpCoerceMulti \/ UpCreateIndex \/ UpAnalyze
    /\ UNCHANGED <<slugVars, colVars, geomVars, encVars,
                 batchVars>>

SpecDb == InitDb /\ [][NextDb]_vars

InitRun ==
    /\ RunInit
    /\ SlugIdle /\ ColIdle /\ GeomIdle /\ EncIdle
    /\ if_exists \in { "replace", "append" }
    /\ db = NoDb /\ tx = NoDb /\ tx_failed = FALSE /\ call = NoCall /\ pc = "off"

NextRun ==
    /\ \/ RunMkEngine \/ RunEnsurePostgis \/ RunNextFile \/ RunReadShp
       \/ RunCreateSchema \/ RunWriteTable \/ RunFinalize \/ RunPublish
       \/ RunWriteReport
    /\ UNCHANGED <<slugVars, colVars, geomVars, encVars, dbVars>>

SpecRun == InitRun /\ [][NextRun]_vars

(***************************************************************************)
(* C1: slugify is idempotent: slugify(slugify(s)) = slugify(s) for every   *)
(* input name s, truncated names included.                                 *)
(***************************************************************************)
C1_SlugifyIdempotent == nm_pc = "twice" => nm_twice = nm_once

(***************************************************************************)
(* C2: every identifier the normalizer emits is safe and length-bounded:   *)
(* the slug of any input name, and every non-geometry column name that     *)
(* sanitize_columns produces (collision-suffixed names included), has only *)
(* characters of [a-z0-9_], at most 63 of them, and no double underscore.  *)
(***************************************************************************)
IsSafeIdent(s) ==
    /\ Range(s) \subseteq SafeChars
    /\ Len(s) <= 63
    /\ \A i \in 1..(Len(s) - 1) : ~(s[i] = "_" /\ s[i + 1] = "_")

C2_IdentifiersSafeBounded ==
    sc_pc = "done" =>
        \A i \in DOMAIN sc_cols :
            /\ IsSafeIdent(slugify(sc_cols[i]))
            /\ sc_cols[i] # GEOMETRY_COL => IsSafeIdent(sc_out[i])

(***************************************************************************)
(* C3, as amended: sanitize_columns returns as many names as it was given, *)
(* in the same positions; a column literally named "geometry" is passed    *)
(* through; the other output names are pairwise distinct and none is       *)
(* "geometry"; a column whose normalized name is not "geometry" and was    *)
(* not already given to an earlier column keeps it unsuffixed, and any     *)
(* other column gets its normalized name with the first of the suffixes    *)
(* _2, _3, ... that yields a name not given to an earlier column.          *)
(***************************************************************************)
\* the normalized name of an input column, the "col" default applied
NormName(c) == IF slugify(c) = << >> THEN COL_DEFAULT ELSE slugify(c)

NonGeom == { i \in DOMAIN sc_cols : sc_cols[i] # GEOMETRY_COL }

\* the names given to the non-geometry columns left of position i
Earlier(i) == { sc_out[j] : j \in { k \in NonGeom : k < i } }

Taken(i, n) == n \in Earlier(i) \/ n = GEOMETRY_COL

C3_UniqueFirstFree ==
    sc_pc = "done" =>
        /\ Len(sc_out) = Len(sc_cols)
        /\ \A i \in DOMAIN sc_cols : sc_cols[i] = GEOMETRY_COL => sc_out[i] = GEOMETRY_COL
        /\ \A i \in NonGeom : sc_out[i] # GEOMETRY_COL
        /\ \A i, j \in NonGeom : i # j => sc_out[i] # sc_out[j]
        /\ \A i \in NonGeom :
              IF ~Taken(i, NormName(sc_cols[i]))
              THEN sc_out[i] = NormName(sc_cols[i])
              ELSE \E k \in 2..(Len(sc_cols) + 2) :
                      /\ sc_out[i] = NormName(sc_cols[i]) \o << "_" >> \o ToDec(k)
                      /\ ~Taken(i, sc_out[i])
                      /\ \A m \in 2..(k - 1) :
                            Taken(i, NormName(sc_cols[i]) \o << "_" >> \o ToDec(m))

\* three columns that normalize to one name, the third given the suffix _3
C3_Witness ==
    /\ sc_pc = "done"
    /\ sc_cols = << << "I","D" >>, << "i","d" >>, << "I","d"," " >> >>
    /\ sc_out = << << "i","d" >>, << "i","d","_","2" >>, << "i","d","_","3" >> >>

(* C3 as stated: among the inputs that normalize to one name (other than   *)
(* "geometry"), the first keeps the name unsuffixed and the r-th later one *)
(* gets the suffix _(r+1).                                                 *)
SameNameBefore(i) ==
    { j \in NonGeom : j < i /\ NormName(sc_cols[j]) = NormName(sc_cols[i]) }

C3_FirstOccurrenceUnsuffixed ==
    sc_pc = "done" =>
        /\ Len(sc_out) = Len(sc_cols)
        /\ \A i, j \in NonGeom : i # j => sc_out[i] # sc_out[j]
        /\ \A i \in NonGeom :
              NormName(sc_cols[i]) # GEOMETRY_COL =>
                  sc_out[i] =
                      IF SameNameBefore(i) = {} THEN NormName(sc_cols[i])
                      ELSE NormName(sc_cols[i]) \o << "_" >>
                              \o ToDec(Cardinality(SameNameBefore(i)) + 1)

(***************************************************************************)
(* C4: geom_type_for_column follows the three-way policy. With D the set   *)
(* of distinct base types of the non-null geometries: D empty gives the    *)
(* generic type with mixed = TRUE; D = {t} gives t with mixed = FALSE; D   *)
(* with several elements gives the generic type with mixed = TRUE; and the *)
(* type name ends in "Z" exactly when the Z flag passed in is true.        *)
(***************************************************************************)
\* shapely names the base type only, so the base type is the name upper-cased
BaseTypes == { Upper(gc_gdf[i].gt) : i \in { k \in DOMAIN gc_gdf : ~gc_gdf[k].null } }

C4_ThreeWayPolicy ==
    gc_pc = "done" =>
        /\ BaseTypes = {} =>
              /\ gc_res.mixed
              /\ gc_res.gtype \in { T_GEOMETRY, T_GEOMETRY \o << "Z" >> }
        /\ \A t \in BaseTypes :
              BaseTypes = { t } =>
                  /\ ~gc_res.mixed
                  /\ gc_res.gtype \in { t, t \o << "Z" >> }
        /\ Cardinality(BaseTypes) > 1 =>
              /\ gc_res.mixed
              /\ gc_res.gtype \in { T_GEOMETRY, T_GEOMETRY \o << "Z" >> }
        /\ EndsWith(gc_res.gtype, << "Z" >>) <=> gc_z

\* polygons only, one of them with a Z coordinate: POLYGONZ, not mixed
C4_Witness ==
    /\ gc_pc = "done"
    /\ Len(gc_gdf) = 2
    /\ BaseTypes = { T_POLYGON }
    /\ gc_z
    /\ gc_res = [gtype |-> T_POLYGON \o << "Z" >>, mixed |-> FALSE]

(***************************************************************************)
(* C5: the resolver tries the hint encoding (when the sidecar gives a      *)
(* non-empty one), then utf-8, latin-1, cp1252, then auto-detection once,  *)
(* in that order; every attempt before the last one made has failed, and   *)
(* the reader returns the result of the attempt that succeeded; a sidecar  *)
(* reading "CP1252" makes cp1252 the first encoding tried.                 *)
(***************************************************************************)
IsPrefixOf(s, t) == Len(s) <= Len(t) /\ s = SubSeq(t, 1, Len(s))

AttemptSucceeds(a) == IF a = AUTO THEN er_auto ELSE a \in er_readable

HintFirstOrder ==
    (IF er_hint # << >> THEN << er_hint >> ELSE << >>)
        \o << ENC_UTF8, ENC_LATIN1, ENC_CP1252, AUTO >>

C5_HintThenFallbacksInOrder ==
    er_pc \in { "loop", "returned", "raised" } =>
        /\ IsPrefixOf(er_attempts, HintFirstOrder)
        /\ \A i \in 1..(Len(er_attempts) - 1) : ~AttemptSucceeds(er_attempts[i])
        /\ er_pc = "returned" =>
              /\ er_attempts # << >>
              /\ AttemptSucceeds(er_attempts[Len(er_attempts)])
              /\ er_result = er_attempts[Len(er_attempts)]
        /\ er_pc = "loop" /\ er_attempts # << >> =>
              ~AttemptSucceeds(er_attempts[Len(er_attempts)])
        /\ (er_cpg.exists /\ er_cpg.text = << "C","P","1","2","5","2" >> /\ er_attempts # << >>) =>
              er_attempts[1] = ENC_CP1252
        /\ (er_cpg.exists /\ StripChars(er_cpg.text, Whitespace) # << >>) => er_hint # << >>

\* a hint that fails, utf-8 that fails, latin-1 that succeeds: three attempts
C5_Witness ==
    /\ er_pc = "returned"
    /\ er_hint = << "b","i","g","5" >>
    /\ er_attempts = << << "b","i","g","5" >>, ENC_UTF8, ENC_LATIN1 >>
    /\ er_result = ENC_LATIN1

(***************************************************************************)
(* C6: when every candidate encoding and the auto-detect attempt fail,     *)
(* either reader fails with an error that names the file path and lists    *)
(* all the encodings that were attempted.                                  *)
(***************************************************************************)
C6_ErrorNamesPathAndEncodings ==
    er_pc = "raised" =>
        /\ er_raised.raised
        /\ er_raised.names_path
        /\ er_raised.encodings = er_trials

(***************************************************************************)
(* C7: in replace mode, once the layer is written the table holds as many  *)
(* rows as the source layer, whatever it held before and however often the *)
(* same file was ingested: rows never accumulate.                          *)
(***************************************************************************)
\* the bulk write of the call has been committed
Written == call.path # "none" /\ (call.step \in { "finalize", "publish" } \/ call.returned)

C7_ReplaceKeepsSourceRowCount ==
    (Written /\ call.mode = "replace") =>
        /\ db.table.exists
        /\ Len(db.table.rows) = Len(call.layer.rows)

\* a two-row layer ingested again into the table that already held two rows
C7_Witness ==
    /\ call.path = "ingest"
    /\ call.mode = "replace"
    /\ call.returned
    /\ call.rows_before = 2
    /\ Len(call.layer.rows) = 2
    /\ Len(db.table.rows) = 2

(***************************************************************************)
(* C8: when ADD PRIMARY KEY fails because the table has a primary key      *)
(* already, the finalizer does not raise, the later statements take        *)
(* effect, and ANALYZE is the last statement executed: the step ends with  *)
(* the id column, the spatial index and fresh statistics in place.         *)
(***************************************************************************)
FinalizerOver == pc \notin { "fin_analyze", "up_coerce", "up_index", "up_analyze" }

C8_PrimaryKeyFailureNonFatal ==
    (call.pk_error = "exists" /\ FinalizerOver) =>
        /\ call.raised # "finalize"
        /\ "ANALYZE" \in Range(call.log)
        /\ db.table.has_id
        /\ db.table.gix
        /\ db.table.analyzed

(***************************************************************************)
(* C9: in the upload path the coercion statement is executed exactly when  *)
(* the SRID is known and the family is MULTIPOLYGON, MULTILINESTRING or    *)
(* MULTIPOINT; with an unknown SRID it is never executed and the column is *)
(* declared GEOMETRY without SRID; once it is executed and the call        *)
(* returns, the column has exactly that multi type, in 2D, and so has      *)
(* every geometry of the table.                                            *)
(***************************************************************************)
SridKnown == call.layer.epsg # NoSrid \/ call.default_epsg # NoSrid

CoercionExecuted == "ALTER COLUMN TYPE" \in Range(call.log)

PastCoercion == pc \in { "up_index", "up_analyze" } \/ call.returned

IsMulti2D(t, fam) ==
    /\ t.gtype = fam
    /\ t.dim = 2
    /\ \A i \in DOMAIN t.rows : ~t.rows[i].null => (t.rows[i].gt = fam /\ ~t.rows[i].has_z)

C10_StepAtomicity ==
    call.raised # "none" =>
        /\ db = call.step_base
        /\ (call.path = "ingest" /\ call.raised # "schema") => db.schema
        /\ call.raised \in { "finalize", "publish" } =>
              /\ db.schema
              /\ db.table.exists
              /\ Len(db.table.rows) =
                    IF call.mode = "replace" THEN Len(call.layer.rows)
                    ELSE call.rows_before + Len(call.layer.rows)
        /\ (call.raised = "finalize" /\ (call.mode = "replace" \/ call.rows_before = 0)) =>
              /\ ~db.table.gix
              /\ ~db.table.pkey
              /\ ~db.table.analyzed
              /\ db.table.has_id <=> call.layer.id # "none"
        /\ call.raised = "publish" =>
              /\ db.table.gix
              /\ db.table.has_id
              /\ db.table.analyzed

\* the finalizer raised after its index and id statements had been executed
C10_Witness ==
    /\ call.raised = "finalize"
    /\ "CREATE INDEX" \in Range(call.log)
    /\ "ADD COLUMN id" \in Range(call.log)
    /\ db.table.exists
    /\ ~db.table.gix
    /\ ~db.table.has_id

(***************************************************************************)
(* C11: in a batch run a failure while one file is processed is contained  *)
(* to that file. It never ends the run; the error list holds exactly one   *)
(* record, with the path and the error message, for each file that failed  *)
(* and none for a file that was ingested or skipped as empty; when the     *)
(* loop is over every file of the walk has been processed; the report is   *)
(* written if and only if the error list is not empty, and holds it.       *)
(***************************************************************************)
FailedFiles == { i \in DOMAIN b_outcome : b_outcome[i] = "failed" }

RecordsOf(i) == { k \in DOMAIN b_errors : b_errors[k].file = Walk[i] }

C11_FailureContainedToFile ==
    /\ b_pc = "aborted" => b_idx = 0
    /\ \A i \in DOMAIN b_outcome :
          IF i \in FailedFiles
          THEN /\ Cardinality(RecordsOf(i)) = 1
               /\ \A k \in RecordsOf(i) : b_errors[k].error \in { E_READ, E_DATABASE, E_CONNECTION }
          ELSE RecordsOf(i) = {}
    /\ Len(b_errors) = Cardinality(FailedFiles)
    /\ b_pc \in { "report", "done" } =>
          \A i \in DOMAIN b_outcome : b_outcome[i] \in { "ingested", "empty", "failed" }
    /\ b_pc = "done" => /\ b_report.written <=> b_errors # << >>
                        /\ b_report.written => b_report.records = b_errors
    /\ b_pc # "done" => ~b_report.written

\* a finished run in which a file failed and a later file was ingested
C11_Witness ==
    /\ b_pc = "done"
    /\ b_report.written
    /\ \E i, j \in DOMAIN b_outcome :
          i < j /\ b_outcome[i] = "failed" /\ b_outcome[j] = "ingested"

(***************************************************************************)
(* C12: a database connectivity or configuration failure aborts the whole  *)
(* batch run at once. A run without its configuration, or whose setup      *)
(* could not reach the server, begins no file; and once the connection     *)
(* failed while a file was written, finalized or published, no later file  *)
(* of the walk is begun.                                                   *)
(***************************************************************************)
Begun(i) == b_outcome[i] # "pending"

ConnectionFailedAt(i) ==
    \E k \in DOMAIN b_errors : b_errors[k].file = Walk[i] /\ b_errors[k].error = E_CONNECTION

C12_ConnectivityFailureAbortsRun ==
    /\ ~b_cfg => \A i \in DOMAIN b_outcome : ~Begun(i)
    /\ b_pc = "aborted" => \A i \in DOMAIN b_outcome : ~Begun(i)
    /\ \A i, j \in DOMAIN b_outcome : ConnectionFailedAt(i) /\ i < j => ~Begun(j)

(***************************************************************************)
(* C13: a batch run produces one table per layer. When the run is over and *)
(* every file of the walk was ingested (none empty, none failed), the      *)
(* table names of the files are pairwise distinct and each file's table    *)
(* exists and holds the rows of that file.                                 *)
(***************************************************************************)
AllIngested == b_pc = "done" /\ \A i \in DOMAIN b_outcome : b_outcome[i] = "ingested"

TableOf(i) == table_name_from_path(ROOT, Walk[i])

C13_OneTablePerLayer ==
    AllIngested =>
        /\ \A i, j \in DOMAIN b_outcome : i # j => TableOf(i) # TableOf(j)
        /\ \A i \in DOMAIN b_outcome :
              /\ b_tables[TableOf(i)].exists
              /\ b_tables[TableOf(i)].rows = StoredRows(ReadLayer(Walk[i]).rows)

====
